---- MODULE Spec2Model ----
(***************************************************************************)
(* Model of the GitHub crawler: github_crawler.py (date-range crawl with   *)
(* a retry counter, one bulk store at the end) and github_to_postgres.py   *)
(* (single search, three attempts per page, save at the end).              *)
(*                                                                         *)
(* The remote API is the environment: every request action picks the       *)
(* response (network error, 403, other non-200 status, GraphQL errors, or  *)
(* a page of nodes).  time.time() is an input too: every read draws a      *)
(* whole second from Clock.  A time.sleep changes no program variable;     *)
(* the duration of a rate-limit sleep is kept in `wait`.                   *)
(*                                                                         *)
(* Spec is github_crawler.py and SpecPg github_to_postgres.py; SpecStore   *)
(* applies the store functions to tables earlier runs have left, SpecTxn   *)
(* runs store_in_postgres statement by statement, SpecPlan builds the      *)
(* date ranges.                                                            *)
(***************************************************************************)
EXTENDS Integers, Sequences, FiniteSets, TLC

VARIABLES
    pc,             \* position of the running script
    token,          \* whether GITHUB_TOKEN is set in the environment
    conn,           \* "unset" | "open" | "closed"
    target,         \* fetch_repositories' target parameter
    di,             \* index of date_filter in date_ranges (0 before the loop)
    has_next_page,
    end_cursor,     \* 0 is None, c > 0 the cursor returned with page c
    retries,
    attempt,        \* github_to_postgres: the for-loop variable of the retry
    all_repos,
    repos,          \* the list fetch_repositories returned
    table,          \* committed rows of table repositories, by natural key
    outcome,        \* how the run has ended so far
    \* ---- history, read by no action's guard
    resp,           \* kind of the last response received
    lastReq,        \* the last request issued: range and cursor
    skipped,        \* "Failed after multiple retries. Skipping batch." has
                    \* printed for the current date_filter
    nfail,          \* requests for the page of lastReq so far, while all of
                    \* them failed in the network (saturating)
    mixed,          \* that page also got a 403 or a GraphQL errors response
    wait,           \* the rate-limit wait the last response led to (0: none)
    early,          \* the sleeps that follow the last response end before
                    \* the reset time it reported (plus the margin, when it
                    \* reported a low quota)
    snap,           \* store runs: the table after the first application
    txn,            \* rows as the open transaction of conn sees them
    ri,             \* store_in_postgres: index of `repo` in repositories
    current,        \* date-range loop: the date `current`, <<y, m, d>>
    ranges          \* date-range loop: the date_ranges list built so far

vars == <<pc, token, conn, target, di, has_next_page, end_cursor, retries,
          attempt, all_repos, repos, table, outcome, resp, lastReq,
          skipped, nfail, mixed, wait, early, snap, txn, ri, current,
          ranges>>

----------------------------------------------------------------------------
(* Bounds of the model *)

NRanges == 2
MaxPages == 2
MaxPageSize == 2
MaxTarget == 2
MaxTime == 7
MaxStamp == 1
CapCount == 5
PgPages == 5
MaxBatch == 2
NNames == 2

(* Program constants *)

Retries == 3
RateLimitDefault == 60
Attempts == 3
PgLimit == 50
PgFirst == 10
LowWater == 10
SafetyMargin == 5
\* time.sleep(1.2) after a page and time.sleep(2) after a GraphQL error, in
\* tenths of a second; time.sleep(2) between the pages of github_to_postgres
PageSleepTenths == 12
ErrorSleepTenths == 20
PgPageSleep == 2

None == 0
Null == <<>>

Min(a, b) == IF a < b THEN a ELSE b
Max(a, b) == IF a > b THEN a ELSE b

\* The values time.time() is read at.
Clock == 0..MaxTime

\* The values CURRENT_TIMESTAMP takes.
Stamps == 0..MaxStamp

\* Saturating increment of a history counter.
Bump(n) == Min(n + 1, CapCount)

----------------------------------------------------------------------------
(* The remote API's data *)

\* The i-th node of the page served for `range` after cursor c.  There are
\* NNames repositories; one can come back on a later page or in a later
\* range, with the star count it has then.
Repo(n, s, c) ==
    [owner |-> [login |-> "o"], name |-> n, stargazerCount |-> s,
     createdAt |-> <<c>>]

Node(range, c, i) == Repo(((c * MaxPageSize + i - 1) % NNames) + 1, range, c)

Nodes(range, c, n) == [i \in 1..n |-> Node(range, c, i)]

\* X-RateLimit-Reset: absent (<<>>) or a timestamp.
ResetHeaders == {<<>>} \cup {<<t>> : t \in 0..MaxTime}

\* X-RateLimit-Remaining: absent (<<>>) or a count.
RemainingHeaders == {<<>>} \cup {<<r>> : r \in {0, LowWater - 1, LowWater}}

----------------------------------------------------------------------------
(* RepositoryStore *)

Key(repo) == <<repo.owner.login, repo.name>>

\* A plausible slip: the update adds the new star count to the stored one.
UpsertAdds(t, key, stars, created, ts) ==
    IF key \in DOMAIN t
    THEN [t EXCEPT ![key].stars = @ + stars, ![key].last_updated = ts]
    ELSE [k \in DOMAIN t \cup {key} |->
            IF k = key
            THEN [stars |-> stars, created_at |-> created, last_updated |-> ts]
            ELSE t[k]]

\* A plausible slip: created_at is in the SET list of the update as well.
UpsertResetsCreated(t, key, stars, created, ts) ==
    IF key \in DOMAIN t
    THEN [t EXCEPT ![key].stars = stars, ![key].created_at = created,
                   ![key].last_updated = ts]
    ELSE [k \in DOMAIN t \cup {key} |->
            IF k = key
            THEN [stars |-> stars, created_at |-> created, last_updated |-> ts]
            ELSE t[k]]

\* INSERT ... ON CONFLICT (owner_name, repo_name) DO UPDATE SET stars,
\* last_updated; the surrogate id is read by no statement and left out.
Upsert(t, key, stars, created, ts) ==
    IF key \in DOMAIN t
    THEN [t EXCEPT ![key].stars = stars, ![key].last_updated = ts]
    ELSE [k \in DOMAIN t \cup {key} |->
            IF k = key
            THEN [stars |-> stars, created_at |-> created, last_updated |-> ts]
            ELSE t[k]]

RECURSIVE store_rows(_, _, _, _)
store_rows(t, batch, i, ts) ==
    IF i > Len(batch) THEN t
    ELSE store_rows(Upsert(t, Key(batch[i]), batch[i].stargazerCount,
                           batch[i].createdAt, ts),
                    batch, i + 1, ts)

\* store_in_postgres: the loop over the batch, then the commit.
store_in_postgres(t, batch, ts) == store_rows(t, batch, 1, ts)

----------------------------------------------------------------------------
(* github_crawler.py *)

date_ranges == 1..NRanges

\* handle_errors, 403 branch: the wait handed to time.sleep.
wait_for(hdr, t) ==
    LET reset_time == IF hdr = <<>> THEN t + RateLimitDefault ELSE hdr[1]
    IN  Max(0, reset_time - t)

\* A response reports a quota below the low-water mark and a reset time,
\* and the sleeps that follow it (tenths of a second) are over before the
\* reset time plus the margin.  t is the second the response arrived in.
LowQuotaTooSoon(rem, hdr, t, sleptTenths) ==
    /\ rem # <<>> /\ rem[1] < LowWater
    /\ hdr # <<>>
    /\ 10 * t + sleptTenths < 10 * (hdr[1] + SafetyMargin)

\* A 403 response reports a reset time, and the sleeps that follow it are
\* over before that time.
BlockTooSoon(hdr, t, sleptTenths) ==
    /\ hdr # <<>>
    /\ 10 * t + sleptTenths < 10 * hdr[1]

\* A request for the current page goes out: what the history records.
Issue(kind, slept, tooSoon) ==
    /\ resp' = kind
    /\ lastReq' = [range |-> di, cursor |-> end_cursor]
    /\ nfail' = IF kind = "neterr" /\ ~mixed THEN Bump(nfail) ELSE nfail
    /\ mixed' = (mixed \/ kind \in {"403", "errors"})
    /\ wait' = slept
    /\ early' = tooSoon

hist == <<resp, lastReq, nfail, mixed, wait, early>>
aux == <<snap, txn, ri, current, ranges>>
inputs == <<token, target>>
loopv == <<di, has_next_page, end_cursor, retries, attempt>>
data == <<all_repos, repos, table>>

Init ==
    /\ pc = "start"
    /\ token \in BOOLEAN
    /\ conn = "unset"
    /\ target \in 1..MaxTarget
    /\ di = 0
    /\ has_next_page = TRUE
    /\ end_cursor = None
    /\ retries = 0
    /\ attempt = 0
    /\ all_repos = <<>>
    /\ repos = <<>>
    /\ table = <<>>
    /\ outcome = "running"
    /\ resp = "none"
    /\ lastReq = [range |-> 0, cursor |-> None]
    /\ skipped = FALSE
    /\ nfail = 0
    /\ mixed = FALSE
    /\ wait = 0
    /\ early = FALSE
    /\ snap = <<>>
    /\ txn = <<>>
    /\ ri = 0
    /\ current = <<>>
    /\ ranges = <<>>

\* __main__, lines 171-173
LoadToken ==
    /\ pc = "start"
    /\ IF token
       THEN /\ pc' = "connect"
            /\ UNCHANGED outcome
       ELSE /\ pc' = "finally"
            /\ outcome' = "Exception"
    /\ UNCHANGED <<inputs, conn, loopv, data, hist, skipped, aux>>

\* __main__, lines 176-182, and the entry of fetch_repositories (line 54)
ConnectOk ==
    /\ pc = "connect"
    /\ conn' = "open"
    /\ all_repos' = <<>>
    /\ pc' = "for"
    /\ UNCHANGED <<inputs, loopv, repos, table, outcome, hist, skipped,
                   aux>>

ConnectFail ==
    /\ pc = "connect"
    /\ pc' = "finally"
    /\ outcome' = "Exception"
    /\ UNCHANGED <<inputs, conn, loopv, data, hist, skipped, aux>>

\* for date_filter in date_ranges (lines 71-74); lines 118-119 when exhausted
ForNext ==
    /\ pc = "for"
    /\ IF di < NRanges
       THEN /\ di' = di + 1
            /\ has_next_page' = TRUE
            /\ end_cursor' = None
            /\ pc' = "while"
            /\ skipped' = FALSE
            /\ UNCHANGED <<repos, outcome>>
       ELSE /\ repos' = all_repos
            /\ outcome' = "AllPartitionsDone"
            /\ pc' = "store"
            /\ UNCHANGED <<di, has_next_page, end_cursor, skipped>>
    /\ UNCHANGED <<inputs, conn, retries, attempt, all_repos, table, hist,
                   aux>>

\* while has_next_page and len(all_repos) < target (lines 76-79)
WhileTest ==
    /\ pc = "while"
    /\ IF has_next_page /\ Len(all_repos) < target
       THEN /\ retries' = Retries
            /\ pc' = "retry"
            /\ IF <<di, end_cursor>> = <<lastReq.range, lastReq.cursor>>
               THEN UNCHANGED <<nfail, mixed>>
               ELSE nfail' = 0 /\ mixed' = FALSE
       ELSE /\ pc' = "for"
            /\ UNCHANGED <<retries, nfail, mixed>>
    /\ UNCHANGED <<inputs, conn, di, has_next_page, end_cursor, attempt, data,
                   outcome, resp, lastReq, wait, early, skipped, aux>>

\* requests.post raises RequestException (lines 106-109)
NetError ==
    /\ pc = "retry" /\ retries > 0
    /\ Issue("neterr", 0, FALSE)
    /\ retries' = retries - 1
    /\ UNCHANGED <<pc, inputs, conn, di, has_next_page, end_cursor, attempt,
                   data, outcome, skipped, aux>>

\* status 403: handle_errors lines 32-38, then continue (line 86)
Resp403 ==
    /\ pc = "retry" /\ retries > 0
    /\ \E w \in {<<wait_for(hdr, t),
                     BlockTooSoon(hdr, t, 10 * wait_for(hdr, t))>> :
                        hdr \in ResetHeaders, t \in Clock} :
          Issue("403", w[1], w[2])
    /\ UNCHANGED <<pc, inputs, conn, loopv, data, outcome, skipped, aux>>

\* status neither 200 nor 403: handle_errors line 42 reads its own local
\* `retries` before any assignment; the UnboundLocalError is no
\* RequestException, leaves fetch_repositories and lands in line 187.
RespNon200 ==
    /\ pc = "retry" /\ retries > 0
    /\ Issue("5xx", 0, FALSE)
    /\ outcome' = "Exception"
    /\ pc' = "finally"
    /\ UNCHANGED <<inputs, conn, loopv, data, skipped, aux>>

\* A plausible slip: the nodes of a response are taken before its "errors"
\* key is looked at.
RespErrorsExtends ==
    /\ pc = "retry" /\ retries > 0
    /\ \E tooSoon \in {LowQuotaTooSoon(rem, hdr, t, ErrorSleepTenths) :
                          rem \in RemainingHeaders, hdr \in ResetHeaders,
                          t \in Clock} :
          Issue("errors", 0, tooSoon)
    /\ retries' = retries - 1
    /\ all_repos' = all_repos \o Nodes(di, end_cursor, 1)
    /\ UNCHANGED <<pc, inputs, conn, di, has_next_page, end_cursor, attempt,
                   repos, table, outcome, skipped, aux>>

\* status 200 with "errors" in the body (lines 88-93)
RespErrors ==
    /\ pc = "retry" /\ retries > 0
    /\ \E tooSoon \in {LowQuotaTooSoon(rem, hdr, t, ErrorSleepTenths) :
                          rem \in RemainingHeaders, hdr \in ResetHeaders,
                          t \in Clock} :
          Issue("errors", 0, tooSoon)
    /\ retries' = retries - 1
    /\ UNCHANGED <<pc, inputs, conn, di, has_next_page, end_cursor, attempt,
                   data, outcome, skipped, aux>>

\* A plausible slip: the cursor of the response is dropped.
NextCursorStale(sent, returned) == sent

\* end_cursor = search_data["pageInfo"]["endCursor"] (line 100): the next
\* query carries the cursor the API returned.
NextCursor(sent, returned) == returned

\* status 200 with data (lines 95-104)
RespOK ==
    /\ pc = "retry" /\ retries > 0
    /\ \E n \in 0..MaxPageSize, more \in BOOLEAN :
          /\ more => end_cursor + 1 < MaxPages
          /\ all_repos' = all_repos \o Nodes(di, end_cursor, n)
          /\ has_next_page' = more
          /\ end_cursor' = NextCursor(end_cursor, end_cursor + 1)
    /\ \E tooSoon \in {LowQuotaTooSoon(rem, hdr, t, PageSleepTenths) :
                          rem \in RemainingHeaders, hdr \in ResetHeaders,
                          t \in Clock} :
          Issue("ok", 0, tooSoon)
    /\ pc' = "after"
    /\ UNCHANGED <<inputs, conn, di, retries, attempt, repos, table, outcome,
                   skipped, aux>>

\* while retries > 0 is false (line 80)
RetryExit ==
    /\ pc = "retry" /\ retries = 0
    /\ pc' = "after"
    /\ UNCHANGED <<inputs, conn, loopv, data, outcome, hist, skipped,
                   aux>>

\* A plausible slip: the target counts as reached only once it is passed.
TargetMetStrict(n, tgt) == n > tgt

\* if len(all_repos) >= target (line 114)
TargetMet(n, tgt) == n >= tgt

\* lines 111-116
AfterRetry ==
    /\ pc = "after"
    /\ skipped' = (skipped \/ retries = 0)
    /\ IF TargetMet(Len(all_repos), target)
       THEN /\ repos' = all_repos
            /\ outcome' = "TargetReached"
            /\ pc' = "store"
       ELSE /\ pc' = "while"
            /\ UNCHANGED <<repos, outcome>>
    /\ UNCHANGED <<inputs, conn, loopv, all_repos, table, hist, aux>>

\* store_in_postgres(conn, repos) (line 185)
Store ==
    /\ pc = "store"
    /\ \E ts \in Stamps : table' = store_in_postgres(table, repos, ts)
    /\ pc' = "finally"
    /\ UNCHANGED <<inputs, conn, loopv, all_repos, repos, outcome, hist,
                   skipped, aux>>

\* store_in_postgres raises (a node without owner, a database error): the
\* exception lands in line 187; what the call had not committed is rolled
\* back when the connection closes.
StoreFail ==
    /\ pc = "store"
    /\ outcome' = "Exception"
    /\ pc' = "finally"
    /\ UNCHANGED <<inputs, conn, loopv, data, hist, skipped, aux>>

\* A plausible slip: conn.close() is the last statement of the try block.
FinallyLeak ==
    /\ pc = "finally"
    /\ conn' = IF conn = "open" /\ outcome # "Exception" THEN "closed"
                                                          ELSE conn
    /\ pc' = "done"
    /\ UNCHANGED <<inputs, loopv, data, outcome, hist, skipped, aux>>

\* lines 187-193
Finally ==
    /\ pc = "finally"
    /\ conn' = IF conn = "open" THEN "closed" ELSE conn
    /\ pc' = "done"
    /\ UNCHANGED <<inputs, loopv, data, outcome, hist, skipped, aux>>

Next ==
    \/ LoadToken
    \/ ConnectOk
    \/ ConnectFail
    \/ ForNext
    \/ WhileTest
    \/ NetError
    \/ Resp403
    \/ RespNon200
    \/ RespErrors
    \/ RespOK
    \/ RetryExit
    \/ AfterRetry
    \/ Store
    \/ StoreFail
    \/ Finally

Spec == Init /\ [][Next]_vars

\* The script takes its next step as long as it has one (one thread, every
\* request returns).  The API stops answering 403 at some point and never
\* answers with another status than 200 and 403.
FairSpec ==
    Spec /\ WF_vars(Next) /\ <>[](resp # "403") /\ [](resp # "5xx")

----------------------------------------------------------------------------
(* github_to_postgres.py *)

PgPageSizes == {0, 1, PgFirst}

\* lines 94-99: the wait handed to time.sleep when the quota is low.
pg_wait(hdr, t) ==
    LET reset_time == IF hdr = <<>> THEN t + RateLimitDefault ELSE hdr[1]
    IN  reset_time - t + SafetyMargin

\* save_to_postgres: no created_at column in the INSERT.
RECURSIVE save_rows(_, _, _, _)
save_rows(t, batch, i, ts) ==
    IF i > Len(batch) THEN t
    ELSE save_rows(Upsert(t, Key(batch[i]), batch[i].stargazerCount, Null, ts),
                   batch, i + 1, ts)

save_to_postgres(t, batch, ts) == save_rows(t, batch, 1, ts)

InitPg ==
    /\ pc = "pg_start"
    /\ token \in BOOLEAN
    /\ conn = "unset"
    /\ target = PgLimit
    /\ di = 0
    /\ has_next_page = TRUE
    /\ end_cursor = None
    /\ retries = 0
    /\ attempt = 0
    /\ all_repos = <<>>
    /\ repos = <<>>
    /\ table = <<>>
    /\ outcome = "running"
    /\ resp = "none"
    /\ lastReq = [range |-> 0, cursor |-> None]
    /\ skipped = FALSE
    /\ nfail = 0
    /\ mixed = FALSE
    /\ wait = 0
    /\ early = FALSE
    /\ snap = <<>>
    /\ txn = <<>>
    /\ ri = 0
    /\ current = <<>>
    /\ ranges = <<>>

\* lines 11-14: no try around the module's setup, the ValueError ends the
\* process
PgLoadToken ==
    /\ pc = "pg_start"
    /\ IF token
       THEN /\ pc' = "pg_connect"
            /\ UNCHANGED outcome
       ELSE /\ pc' = "pg_died"
            /\ outcome' = "Died"
    /\ UNCHANGED <<inputs, conn, loopv, data, hist, skipped, aux>>

\* lines 19-27, and the entry of fetch_repositories (lines 31-33)
PgConnectOk ==
    /\ pc = "pg_connect"
    /\ conn' = "open"
    /\ all_repos' = <<>>
    /\ has_next_page' = TRUE
    /\ end_cursor' = None
    /\ pc' = "pg_while"
    /\ UNCHANGED <<inputs, di, retries, attempt, repos, table, outcome, hist,
                   skipped, aux>>

PgConnectFail ==
    /\ pc = "pg_connect"
    /\ pc' = "pg_died"
    /\ outcome' = "Died"
    /\ UNCHANGED <<inputs, conn, loopv, data, hist, skipped, aux>>

\* while has_next_page and len(all_repos) < 50 (line 36); line 106 after it
PgWhileTest ==
    /\ pc = "pg_while"
    /\ IF has_next_page /\ Len(all_repos) < PgLimit
       THEN /\ attempt' = 0
            /\ pc' = "pg_attempt"
            /\ IF <<di, end_cursor>> = <<lastReq.range, lastReq.cursor>>
               THEN UNCHANGED <<nfail, mixed>>
               ELSE nfail' = 0 /\ mixed' = FALSE
            /\ UNCHANGED <<repos, outcome>>
       ELSE /\ repos' = all_repos
            /\ outcome' = "Returned"
            /\ pc' = "pg_main"
            /\ UNCHANGED <<attempt, nfail, mixed>>
    /\ UNCHANGED <<inputs, conn, di, has_next_page, end_cursor, retries,
                   all_repos, table, resp, lastReq, wait, early, skipped,
                   aux>>

\* lines 60-62: status 200, break
PgAttemptOk ==
    /\ pc = "pg_attempt"
    /\ \E kind \in {"ok", "errors", "nodata"} : Issue(kind, 0, FALSE)
    /\ pc' = "pg_parse"
    /\ UNCHANGED <<inputs, conn, loopv, data, outcome, skipped, aux>>

\* lines 63-71: requests.post or raise_for_status raises RequestException
PgAttemptFail ==
    /\ pc = "pg_attempt"
    /\ \E kind \in {"neterr", "403", "5xx"} :
          \E tooSoon \in {/\ kind = "403"
                          /\ attempt < Attempts - 1
                          /\ BlockTooSoon(hdr, t, 10 * 2 ^ attempt) :
                             hdr \in ResetHeaders, t \in Clock} :
             Issue(kind, 0, tooSoon)
    /\ IF attempt < Attempts - 1
       THEN /\ attempt' = attempt + 1
            /\ UNCHANGED <<pc, repos, outcome>>
       ELSE /\ repos' = <<>>
            /\ outcome' = "MaxRetries"
            /\ pc' = "pg_main"
            /\ UNCHANGED attempt
    /\ UNCHANGED <<inputs, conn, di, has_next_page, end_cursor, retries,
                   all_repos, table, skipped, aux>>

\* lines 74-86: "errors" in data, or no data.search: break, then line 106
PgParseBreak ==
    /\ pc = "pg_parse"
    /\ resp \in {"errors", "nodata"}
    /\ repos' = all_repos
    /\ outcome' = "Returned"
    /\ pc' = "pg_main"
    /\ UNCHANGED <<inputs, conn, loopv, all_repos, table, hist, skipped, aux>>

\* lines 81-104: the page is taken; with the quota low, sleep until the
\* reset plus 5 s.  time.sleep raises ValueError on a negative length, which
\* leaves fetch_repositories and lands in line 132.
PgParseOk ==
    /\ pc = "pg_parse"
    /\ resp = "ok"
    /\ \E n \in PgPageSizes, more \in BOOLEAN :
          /\ more => end_cursor + 1 < PgPages
          /\ all_repos' = all_repos \o Nodes(di, end_cursor, n)
          /\ has_next_page' = more
          /\ end_cursor' = end_cursor + 1
    /\ \E w \in {LET remaining == IF rem = <<>> THEN 1 ELSE rem[1]
                     slept == IF remaining < LowWater THEN pg_wait(hdr, t)
                                                      ELSE 0
                 IN  <<slept, LowQuotaTooSoon(rem, hdr, t,
                                              10 * (slept + PgPageSleep))>> :
                        rem \in RemainingHeaders, hdr \in ResetHeaders,
                        t \in Clock} :
          /\ wait' = w[1]
          /\ early' = w[2]
    /\ IF wait' < 0
       THEN /\ outcome' = "Exception"
            /\ pc' = "pg_finally"
       ELSE /\ pc' = "pg_while"
            /\ UNCHANGED outcome
    /\ UNCHANGED <<inputs, conn, di, retries, attempt, repos, table, resp,
                   lastReq, nfail, mixed, skipped, aux>>

\* lines 126-133
PgMain ==
    /\ pc = "pg_main"
    /\ IF repos # <<>>
       THEN \E ts \in Stamps : table' = save_to_postgres(table, repos, ts)
       ELSE UNCHANGED table
    /\ pc' = "pg_finally"
    /\ UNCHANGED <<inputs, conn, loopv, all_repos, repos, outcome, hist,
                   skipped, aux>>

\* save_to_postgres raises: the exception lands in line 132
PgSaveFail ==
    /\ pc = "pg_main"
    /\ repos # <<>>
    /\ outcome' = "Exception"
    /\ pc' = "pg_finally"
    /\ UNCHANGED <<inputs, conn, loopv, data, hist, skipped, aux>>

\* lines 134-138
PgFinally ==
    /\ pc = "pg_finally"
    /\ conn' = "closed"
    /\ pc' = "pg_done"
    /\ UNCHANGED <<inputs, loopv, data, outcome, hist, skipped, aux>>

NextPg ==
    \/ PgLoadToken
    \/ PgConnectOk
    \/ PgConnectFail
    \/ PgWhileTest
    \/ PgAttemptOk
    \/ PgAttemptFail
    \/ PgParseBreak
    \/ PgParseOk
    \/ PgMain
    \/ PgSaveFail
    \/ PgFinally

SpecPg == InitPg /\ [][NextPg]_vars

----------------------------------------------------------------------------
(* The store functions on their own: a batch is stored, and stored again   *)
(* by a rerun, into a table earlier runs have left.                        *)

StoreRepos == {Repo(n, s, c) : n \in {1, 2}, s \in {1, 2}, c \in {0, 1}}

Batches == UNION {[1..n -> StoreRepos] : n \in 0..MaxBatch}

SeedBatches == UNION {[1..n -> StoreRepos] : n \in 0..2}

Tables ==
    {store_in_postgres(<<>>, b, 0) : b \in SeedBatches}
        \cup {save_to_postgres(<<>>, b, 0) : b \in SeedBatches}

InitStore ==
    /\ pc \in {"store0", "save0"}
    /\ token = TRUE
    /\ conn = "open"
    /\ target = 1
    /\ di = 0
    /\ has_next_page = TRUE
    /\ end_cursor = None
    /\ retries = 0
    /\ attempt = 0
    /\ all_repos = <<>>
    /\ repos \in Batches
    /\ table \in Tables
    /\ outcome = "running"
    /\ resp = "none"
    /\ lastReq = [range |-> 0, cursor |-> None]
    /\ skipped = FALSE
    /\ nfail = 0
    /\ mixed = FALSE
    /\ wait = 0
    /\ early = FALSE
    /\ snap = <<>>
    /\ txn = <<>>
    /\ ri = 0
    /\ current = <<>>
    /\ ranges = <<>>

\* store_in_postgres(conn, repos), github_crawler.py lines 126-159
StoreBatch ==
    /\ pc \in {"store0", "store1"}
    /\ \E ts \in Stamps : table' = store_in_postgres(table, repos, ts)
    /\ snap' = IF pc = "store0" THEN table' ELSE snap
    /\ pc' = IF pc = "store0" THEN "store1" ELSE "store2"
    /\ UNCHANGED <<inputs, conn, loopv, all_repos, repos, outcome, hist,
                   skipped, txn, ri, current, ranges>>

\* save_to_postgres(repos), github_to_postgres.py lines 109-123
SaveBatch ==
    /\ pc \in {"save0", "save1"}
    /\ \E ts \in Stamps : table' = save_to_postgres(table, repos, ts)
    /\ snap' = IF pc = "save0" THEN table' ELSE snap
    /\ pc' = IF pc = "save0" THEN "save1" ELSE "save2"
    /\ UNCHANGED <<inputs, conn, loopv, all_repos, repos, outcome, hist,
                   skipped, txn, ri, current, ranges>>

NextStore ==
    \/ StoreBatch
    \/ SaveBatch

SpecStore == InitStore /\ [][NextStore]_vars

----------------------------------------------------------------------------
(* store_in_postgres statement by statement: what the open transaction of  *)
(* conn sees (txn) against what is committed (table).                      *)

\* repo['owner']['login'], repo['name'], repo['stargazerCount'] all succeed.
WellFormed(repo) == {"owner", "name", "stargazerCount"} \subseteq DOMAIN repo

\* A node the API returned without its owner.
Ownerless == [name |-> 1, stargazerCount |-> 1, createdAt |-> <<0>>]

TxnBatches == UNION {[1..n -> StoreRepos \cup {Ownerless}] : n \in 0..MaxBatch}

\* A plausible slip: the connection is in autocommit mode, every statement
\* is committed as it executes.
VisibleAutocommit(committed, working) == working

\* The committed table after cur.execute: psycopg2 opens a transaction with
\* the first statement and commits on conn.commit() only.
Visible(committed, working) == committed

InitTxn ==
    /\ pc = "txn_create"
    /\ token = TRUE
    /\ conn = "open"
    /\ target = 1
    /\ di = 0
    /\ has_next_page = TRUE
    /\ end_cursor = None
    /\ retries = 0
    /\ attempt = 0
    /\ all_repos = <<>>
    /\ repos \in TxnBatches
    /\ table \in Tables
    /\ outcome = "running"
    /\ resp = "none"
    /\ lastReq = [range |-> 0, cursor |-> None]
    /\ skipped = FALSE
    /\ nfail = 0
    /\ mixed = FALSE
    /\ wait = 0
    /\ early = FALSE
    /\ snap = table
    /\ txn = [rows |-> table, ts |-> 0]
    /\ ri = 0
    /\ current = <<>>
    /\ ranges = <<>>

\* lines 128-140: CREATE TABLE IF NOT EXISTS, commit.  The next statement
\* opens the transaction CURRENT_TIMESTAMP is taken from.
TxnCreate ==
    /\ pc = "txn_create"
    /\ \E ts \in Stamps : txn' = [rows |-> table, ts |-> ts]
    /\ ri' = 1
    /\ pc' = "txn_loop"
    /\ UNCHANGED <<inputs, conn, loopv, data, outcome, hist, skipped, snap,
                   current, ranges>>

\* lines 142-155: one record of the batch is upserted
TxnExecute ==
    /\ pc = "txn_loop"
    /\ ri <= Len(repos)
    /\ WellFormed(repos[ri])
    /\ txn' = [txn EXCEPT !.rows = Upsert(@, Key(repos[ri]),
                                          repos[ri].stargazerCount,
                                          repos[ri].createdAt, txn.ts)]
    /\ table' = Visible(table, txn'.rows)
    /\ ri' = ri + 1
    /\ UNCHANGED <<pc, inputs, conn, loopv, all_repos, repos, outcome, hist,
                   skipped, snap, current, ranges>>

\* lines 143-145 raise KeyError; the exception leaves store_in_postgres and
\* lands in line 187
TxnRaise ==
    /\ pc = "txn_loop"
    /\ ri <= Len(repos)
    /\ ~WellFormed(repos[ri])
    /\ outcome' = "Exception"
    /\ pc' = "txn_finally"
    /\ UNCHANGED <<inputs, conn, loopv, data, hist, skipped, aux>>

\* line 157: conn.commit()
TxnCommit ==
    /\ pc = "txn_loop"
    /\ ri > Len(repos)
    /\ table' = txn.rows
    /\ pc' = "txn_finally"
    /\ UNCHANGED <<inputs, conn, loopv, all_repos, repos, outcome, hist,
                   skipped, aux>>

\* The process dies inside the loop or before the commit; the server rolls
\* the open transaction back.
TxnDie ==
    /\ pc = "txn_loop"
    /\ txn' = [txn EXCEPT !.rows = table]
    /\ outcome' = "Died"
    /\ pc' = "txn_dead"
    /\ UNCHANGED <<inputs, conn, loopv, data, hist, skipped, snap, ri,
                   current, ranges>>

\* lines 190-193: conn.close() discards what was not committed
TxnClose ==
    /\ pc = "txn_finally"
    /\ conn' = "closed"
    /\ txn' = [txn EXCEPT !.rows = table]
    /\ pc' = "txn_done"
    /\ UNCHANGED <<inputs, loopv, data, outcome, hist, skipped, snap, ri,
                   current, ranges>>

NextTxn ==
    \/ TxnCreate
    \/ TxnExecute
    \/ TxnRaise
    \/ TxnCommit
    \/ TxnDie
    \/ TxnClose

SpecTxn == InitTxn /\ [][NextTxn]_vars

----------------------------------------------------------------------------
(* fetch_repositories, lines 56-66: the date ranges.  A date is <<y, m, d>> *)
(* in the proleptic Gregorian calendar, as datetime has it.                *)

IsLeap(y) == (y % 4 = 0 /\ y % 100 # 0) \/ y % 400 = 0

DaysInMonth(y, m) ==
    IF m = 2 THEN (IF IsLeap(y) THEN 29 ELSE 28)
    ELSE IF m \in {4, 6, 9, 11} THEN 30 ELSE 31

NextDay(date) ==
    IF date[3] < DaysInMonth(date[1], date[2])
    THEN <<date[1], date[2], date[3] + 1>>
    ELSE IF date[2] < 12 THEN <<date[1], date[2] + 1, 1>>
         ELSE <<date[1] + 1, 1, 1>>

\* date + timedelta(days=n)
RECURSIVE AddDays(_, _)
AddDays(date, n) == IF n = 0 THEN date ELSE AddDays(NextDay(date), n - 1)

\* a < b on datetimes at midnight
Before(a, b) ==
    \/ a[1] < b[1]
    \/ a[1] = b[1] /\ a[2] < b[2]
    \/ a[1] = b[1] /\ a[2] = b[2] /\ a[3] < b[3]

start_date == <<2014, 1, 1>>
end_date == <<2024, 12, 31>>
delta == 30

\* f"created:{current.date()}..{next_month.date()}": the two dates of the
\* search qualifier
DateFilter(a, b) == [from |-> a, to |-> b]

\* GitHub's search matches created:A..B for a repository created on day A,
\* on day B or on a day between them.
Matches(filter, date) == ~Before(date, filter.from) /\ ~Before(filter.to, date)

InitPlan ==
    /\ pc = "plan_loop"
    /\ token = TRUE
    /\ conn = "open"
    /\ target \in 1..MaxTarget
    /\ di = 0
    /\ has_next_page = TRUE
    /\ end_cursor = None
    /\ retries = 0
    /\ attempt = 0
    /\ all_repos = <<>>
    /\ repos = <<>>
    /\ table = <<>>
    /\ outcome = "running"
    /\ resp = "none"
    /\ lastReq = [range |-> 0, cursor |-> None]
    /\ skipped = FALSE
    /\ nfail = 0
    /\ mixed = FALSE
    /\ wait = 0
    /\ early = FALSE
    /\ snap = <<>>
    /\ txn = <<>>
    /\ ri = 0
    /\ current = start_date
    /\ ranges = <<>>

\* lines 63-66: while current < end_date, one more range
PlanAppend ==
    /\ pc = "plan_loop"
    /\ Before(current, end_date)
    /\ LET next_month == AddDays(current, delta)
       IN  /\ ranges' = Append(ranges, DateFilter(current, next_month))
           /\ current' = next_month
    /\ UNCHANGED <<pc, inputs, conn, loopv, data, outcome, hist, skipped, snap,
                   txn, ri>>

\* line 63 is false: the list is complete (line 68)
PlanDone ==
    /\ pc = "plan_loop"
    /\ ~Before(current, end_date)
    /\ pc' = "plan_done"
    /\ UNCHANGED <<inputs, conn, loopv, data, outcome, hist, skipped, aux>>

NextPlan ==
    \/ PlanAppend
    \/ PlanDone

SpecPlan == InitPlan /\ [][NextPlan]_vars

----------------------------------------------------------------------------
(* Properties *)

\* github_crawler is about to send the query for (di, end_cursor).
Requesting == pc = "retry" /\ retries > 0

\* Every repository of the list has its row in the table.
Persisted(rs) == \A i \in 1..Len(rs) : Key(rs[i]) \in DOMAIN table

\* The columns other than last_updated, by natural key.
Columns(t) ==
    [k \in DOMAIN t |-> [stars |-> t[k].stars, created_at |-> t[k].created_at]]

\* C1: once a page of a date range has failed until retries reached 0, no
\* further request is sent for that range.
C1_AbandonedRangeNotRequested == Requesting => ~skipped

\* C2: every run of fetch_repositories ends in TargetReached or
\* AllPartitionsDone, whatever the API answers, as long as it stops
\* answering 403.
C2_FetchTerminates ==
    (pc = "for" /\ di = 0) ~> (outcome \in {"TargetReached", "AllPartitionsDone"})

\* C3: when the request for a page goes out, the records of all pages
\* fetched before it are in the store.
C3_PersistedBeforeNextRequest == Requesting => Persisted(all_repos)

\* C4: in github_to_postgres, giving up on a page after 3 failed attempts
\* still returns the records of the earlier pages, and they are saved.
C4_ExhaustionKeepsRecords ==
    outcome = "MaxRetries" =>
        /\ repos = all_repos
        /\ pc = "pg_done" => Persisted(all_repos)

\* C5: a response with a status other than 200 and 403 never raises out of
\* fetch_repositories.
C5_Non200IsTransient == resp = "5xx" => outcome # "Exception"

\* C6: with only network failures before it, a page is accepted after k < 3
\* failures (k + 1 = min(k + 1, 3) requests), and is declared failed after
\* exactly 3 failed requests.
C6_RequestsPerPage ==
    pc = "after" /\ ~mixed =>
        /\ resp = "ok" => nfail + 1 = Min(nfail + 1, Retries)
        /\ retries = 0 => nfail = Retries

\* C7: after a response with a GraphQL errors list the same query is not
\* sent again.
C7_ErrorsNotRetried ==
    Requesting /\ resp = "errors" =>
        <<di, end_cursor>> # <<lastReq.range, lastReq.cursor>>

\* C8: a 403 response consumes no attempt and the page is tried again.
C8_RateLimitKeepsBudget ==
    [][pc = "pg_attempt" /\ resp' = "403" =>
          attempt' = attempt /\ pc' = "pg_attempt"]_vars

\* C9: every rate-limit wait handed to time.sleep is >= 0.
C9_WaitNonNegative == wait >= 0

\* C10: storing the same batch a second time leaves the same rows with the
\* same stars and created_at as storing it once.
C10_UpsertIdempotent ==
    pc \in {"store2", "save2"} => Columns(table) = Columns(snap)

\* A batch that names one repository twice with different star counts was
\* stored twice into a table that already held the repository, and the
\* second store refreshed last_updated.
C10_Witness ==
    /\ pc = "store2"
    /\ Len(repos) = 2
    /\ Key(repos[1]) = Key(repos[2])
    /\ repos[1].stargazerCount # repos[2].stargazerCount
    /\ table[Key(repos[1])].created_at # repos[1].createdAt
    /\ table[Key(repos[1])].last_updated # snap[Key(repos[1])].last_updated

\* The natural keys a batch names.
BatchKeys(rs) == {Key(rs[i]) : i \in 1..Len(rs)}

\* C11: a store step leaves created_at and the key of every row that was
\* there, leaves every row the batch does not name as it was, and adds rows
\* for keys of the batch only.
C11_UpdateFrame ==
    [][/\ DOMAIN table' = DOMAIN table \cup
                            (IF pc' = pc THEN {} ELSE BatchKeys(repos))
       /\ \A k \in DOMAIN table :
             /\ table'[k].created_at = table[k].created_at
             /\ k \notin BatchKeys(repos) => table'[k] = table[k]]_vars

\* A one-record batch met its key in the table: the row has the record's
\* stars and its own created_at, and a row with another key is there too.
C11_Witness ==
    /\ pc = "store1"
    /\ Len(repos) = 1
    /\ table[Key(repos[1])].stars = repos[1].stargazerCount
    /\ table[Key(repos[1])].created_at # repos[1].createdAt
    /\ table[Key(repos[1])].last_updated # 0
    /\ DOMAIN table # {Key(repos[1])}

\* C12: the committed table is the table the call found or the table with the
\* whole batch stored, at every moment; after a failure at some record or the
\* death of the process it is the table the call found.
C12_BatchAtomic ==
    /\ \/ table = snap
       \/ /\ \A i \in 1..Len(repos) : WellFormed(repos[i])
          /\ table = store_in_postgres(snap, repos, txn.ts)
    /\ outcome \in {"Exception", "Died"} => table = snap

C12_Witness ==
    /\ pc = "txn_done"
    /\ outcome = "Exception"
    /\ ri = 2
    /\ Key(repos[1]) \notin DOMAIN snap
    /\ table = snap

\* C13: no page is requested with target records or more accumulated; the
\* page that brings the count to the target ends the fetch in TargetReached
\* with the accumulated list returned, and the run stores it unless the store
\* raises; a fetch that ends with the date ranges used up has fewer than
\* target records.
C13_StopsAtTarget ==
    /\ Requesting => Len(all_repos) < target
    /\ Len(all_repos) >= target =>
          \/ pc = "after" /\ resp = "ok"
          \/ outcome = "TargetReached"
          \/ pc \in {"finally", "done"} /\ outcome = "Exception"
                                        /\ repos = all_repos
    /\ outcome = "TargetReached" =>
          /\ repos = all_repos
          /\ Len(repos) >= target
          /\ pc = "done" => Persisted(repos)
    /\ outcome = "AllPartitionsDone" => Len(all_repos) < target

\* Two pages of one date range deliver target records between them.
C13_Witness ==
    /\ pc = "done"
    /\ outcome = "TargetReached"
    /\ target = MaxTarget
    /\ Len(repos) = target
    /\ lastReq = [range |-> 1, cursor |-> 1]
    /\ Persisted(repos)

\* C14: the list fetch_repositories returns is never longer than target.
C14_AtMostTarget == Len(repos) <= target

\* The calendar days around the configured span.
Days ==
    {date \in (2013..2025) \X (1..12) \X (1..31) :
        date[3] <= DaysInMonth(date[1], date[2])}

\* C15: the date ranges are ordered oldest first, no day is matched by two of
\* them, and the days they match are exactly those from start_date to
\* end_date.
C15_RangesPartitionSpan ==
    pc = "plan_done" =>
        /\ \A i \in 1..Len(ranges) - 1 :
              Before(ranges[i].from, ranges[i + 1].from)
        /\ \A date \in Days : \A i, j \in 1..Len(ranges) :
              Matches(ranges[i], date) /\ Matches(ranges[j], date) => i = j
        /\ \A date \in Days :
              (\E i \in 1..Len(ranges) : Matches(ranges[i], date))
                 <=> (~Before(date, start_date) /\ ~Before(end_date, date))

\* C16 as stated: no request of a date range carries the cursor the request
\* before it in that range carried.
C16_NoCursorSentTwice ==
    Requesting /\ lastReq.range = di => end_cursor # lastReq.cursor

\* C16: within a date range the cursor never moves back, and every page that
\* is fetched was requested with the current cursor and moves it forward; so
\* no two fetched pages of a range were requested with the same cursor.
C16_FetchedCursorsAdvance ==
    [][/\ di' = di => end_cursor' >= end_cursor
       /\ pc = "retry" /\ pc' = "after" /\ resp' = "ok" =>
             /\ lastReq' = [range |-> di, cursor |-> end_cursor]
             /\ end_cursor' > end_cursor]_vars

\* The second page of a range is fetched on a retry.
C16_Witness ==
    /\ pc = "after"
    /\ resp = "ok"
    /\ nfail >= 1
    /\ lastReq.cursor = 1
    /\ end_cursor = 2

\* C17: a run that has ended has closed the connection it opened, however it
\* ended.
C17_ConnectionClosed == pc = "done" /\ conn # "unset" => conn = "closed"

\* The run ended after an exception in storing.
C17_Witness ==
    /\ pc = "done"
    /\ conn = "closed"
    /\ outcome = "Exception"
    /\ repos # <<>>
    /\ ~Persisted(repos)

\* The exit status of the process once the script has ended.  An exception
\* that no try catches ends the interpreter with status 1
\* (github_to_postgres.py, lines 11-25); github_crawler.py catches every
\* Exception in line 187, prints it and runs off the end of the script.
ExitStatus == IF pc = "pg_died" THEN 1 ELSE 0

\* A run that ended without ever opening the connection: the token was
\* missing or psycopg2.connect raised.
SetupFailed == pc \in {"done", "pg_died"} /\ conn = "unset"

\* C18: a run whose setup failed ends with a status other than 0, the status
\* of a successful run.
C18_SetupFailureExitsNonZero == SetupFailed => ExitStatus # 0

\* C19: no request goes out while the sleeps that followed the last response
\* ended before the reset time it reported, plus the margin when it reported
\* a quota below the low-water mark.
C19_WaitsForReset == Requesting \/ pc = "pg_attempt" => ~early

\* C20: a request that fails leaves all_repos, end_cursor and has_next_page
\* as they were; the request that succeeds appends the nodes of its page, and
\* no other step changes all_repos, so a page retried is appended once.
C20_FailedAttemptFrame ==
    [][/\ Requesting /\ resp' # "ok" =>
             UNCHANGED <<all_repos, end_cursor, has_next_page>>
       /\ Requesting /\ resp' = "ok" =>
             \E n \in 0..MaxPageSize :
                all_repos' = all_repos \o Nodes(di, end_cursor, n)
       /\ ~Requesting => all_repos' = all_repos]_vars

\* The first page of a range arrives after a network error and a 403 or a
\* GraphQL error: its records are in the list once.
C20_Witness ==
    /\ pc = "after"
    /\ resp = "ok"
    /\ nfail >= 1
    /\ mixed
    /\ lastReq.cursor = None
    /\ all_repos = Nodes(di, None, MaxPageSize)

====
